---- MODULE Spec2Model ----
(***************************************************************************)
(* A model of the fiber library of lokmos/Coroutine: the Scheduler         *)
(* (scheduler.cpp / scheduler.h) with the fibers it resumes (fiber.cpp),   *)
(* and the TimerManager (timer.cpp).                                       *)
(*                                                                         *)
(* Spec      : one Scheduler, the thread that constructs it, the OS worker *)
(*             threads start() creates, and the fibers they run.           *)
(* FairSpec  : Spec with weak fairness of every thread's steps.            *)
(* TimerSpec : one TimerManager used by concurrent threads.                *)
(* ClockSpec : timers added and drained while the clock steps both ways.   *)
(* IoSpec    : the FdContext table of one IOManager (ioscheduler.cpp).     *)
(* FiberSpec : the user fibers resumed and reset by one thread directly.   *)
(***************************************************************************)
EXTENDS Integers, Sequences, FiniteSets, TLC

(***************************************************************************)
(* Bounds of the model.                                                    *)
(***************************************************************************)
\* largest `threads` argument of Scheduler::Scheduler
MaxThreads == 2
\* number of scheduleLock() calls the constructing thread makes
MaxTasks == 2
\* timers that add_timer may construct
MaxTimers == 2
\* the largest reading of the system clock
MaxNow == 2
\* the largest period a timer is given
MaxPeriod == 1
\* the most callbacks one listExpiredCb collects before the model stops counting
MaxCbs == 3
\* the calls of Timer::reset that are in flight at once
MaxResets == 1

(***************************************************************************)
(* Thread ids, fiber ids, tasks.                                           *)
(***************************************************************************)
\* the thread that constructs the scheduler (Thread::GetThreadId() there)
CallerTid == 0
\* `thread = -1`: the task may run on any thread; also m_rootThread's default
AnyThread == -1
\* m_mutex is not held
NoOwner == -1
\* a null fiber pointer
NullFiber == 0

\* OS worker threads start() may create: m_threads[i], ids 1..m_threadCount
AllWorkers == 1 .. MaxThreads
Threads == {CallerTid} \cup AllWorkers

\* the fibers user code creates and hands to scheduleLock as fiber tasks
UserFibers == {1, 2}
\* every task handed to scheduleLock gets an id of its own (model bookkeeping)
MaxTaskId == 2 * MaxTasks + Cardinality(UserFibers)
TaskIds == 1 .. MaxTaskId
\* the fiber run() wraps around the callable of task t (scheduler.cpp:139)
CbFiber(t) == Cardinality(UserFibers) + t
TaskFibers == 1 .. (Cardinality(UserFibers) + MaxTasks)
\* the per-thread main fiber Fiber::GetThis() creates (fiber.cpp:29)
RootFiber(th) == 100 + th
\* the idle fiber of a worker's run() (scheduler.cpp:90)
IdleFiber(w) == 200 + w
\* m_schedulerFiber of a use_caller scheduler (scheduler.cpp:35)
SchedFiber == 300
FiberIds ==
    TaskFibers \cup {RootFiber(th) : th \in Threads}
               \cup {IdleFiber(w) : w \in AllWorkers} \cup {SchedFiber}

\* Fiber::State, and NONE for a fiber that is not constructed (yet)
FiberStates == {"NONE", "READY", "RUNNING", "TERM"}

(***************************************************************************)
(* The entries (callables) user code gives to fibers and tasks.  An entry  *)
(* is a straight-line program over three operations:                       *)
(*   inc    ++counter (a shared counter of the test scenario)              *)
(*   sched  Scheduler::GetThis()->scheduleLock(Fiber::GetThis())           *)
(*   yield  Fiber::GetThis()->yield()                                      *)
(***************************************************************************)
Body(kind) ==
    CASE kind = "plain"   -> << "inc" >>
      [] kind = "yield"   -> << "inc", "yield", "inc" >>
      [] kind = "resched" -> << "inc", "sched", "yield", "inc" >>
      [] OTHER            -> << >>

\* how many "inc" operations entry kind c has in a row after its first i
RECURSIVE IncsFrom(_, _)
IncsFrom(c, i) ==
    IF i < Len(Body(c)) /\ Body(c)[i + 1] = "inc" THEN 1 + IncsFrom(c, i + 1)
    ELSE 0

\* entries of the user fibers, and of the callables given as tasks
FiberEntries == {"yield", "resched"}
CbEntries == {"plain", "resched"}
\* target threads a callable task is scheduled with
PinTargets == {AnyThread, 1}
\* fiber tasks are scheduled with the default thread = -1 (scheduler.h:36)
FiberPins == {AnyThread}

\* ScheduleTask() / ScheduleTask::reset(): scheduler.h:79-83, 110-114
NoTask == [id |-> 0, fiber |-> NullFiber, cb |-> "null", thread |-> AnyThread]
\* ScheduleTask(std::shared_ptr<Fiber> f, int thr): scheduler.h:86-89
FiberTask(i, f, thr) == [id |-> i, fiber |-> f, cb |-> "null", thread |-> thr]
\* ScheduleTask(std::function<void()> f, int thr): scheduler.h:98-101
CbTask(i, c, thr) == [id |-> i, fiber |-> NullFiber, cb |-> c, thread |-> thr]

VARIABLES
    \* --- Scheduler ---
    useCaller,      \* m_useCaller
    nThreads,       \* the `threads` argument of the constructor
    m_stopping,     \* m_stopping
    m_mutex,        \* owner of Scheduler::m_mutex, NoOwner when free
    m_tasks,        \* m_tasks, the task queue
    m_activeThreadCount,
    m_idleThreadCount,
    \* --- threads ---
    mpc,            \* where the user's thread is: start, schedule, stop
    stopper,        \* which thread calls stop(): "ctor", "other" ("none" before)
    wpc,            \* wpc[w]: where worker w is in Thread::run / Scheduler::run
    task,           \* task[w]: the local `task` of run()
    tickle_me,      \* tickle_me[w]: the local `tickle_me` of run()
    t_fiber,        \* t_fiber[th]: the thread-local current fiber
    \* --- fibers ---
    m_state,        \* m_state[f]
    m_cb,           \* m_cb[f]: the entry, "null" when cleared
    ip,             \* ip[f]: how many operations of its entry f has executed
    \* --- observation ---
    counter,        \* the shared counter the entries increment
    nextTask,       \* next task id
    dispatched,     \* dispatched[t]: how often task t was taken from the queue
    fault           \* "none", or the assertion / undefined behaviour hit

schedVars ==
    << useCaller, nThreads, m_stopping, m_mutex, m_tasks, m_activeThreadCount,
       m_idleThreadCount, mpc, stopper, wpc, task, t_fiber, m_state, m_cb, ip,
       counter, nextTask, dispatched, fault, tickle_me >>

VARIABLES
    \* --- the system clock ---
    now,            \* std::chrono::system_clock::now()
    \* --- TimerManager ---
    m_timers,       \* m_timers: the timers in the std::set
    m_tickled,      \* m_tickled
    m_previouseTime,\* m_previouseTime
    tm_mutex,       \* writer of TimerManager::m_mutex, NoOwner when free
    \* --- Timer objects ---
    created,        \* the timers constructed so far
    timer_cb,       \* Timer::m_cb, "null" when cleared
    m_ms,           \* Timer::m_ms
    m_next,         \* Timer::m_next
    m_recurring,    \* Timer::m_recurring
    \* --- callers of the TimerManager ---
    tpc,            \* tpc[c]: where caller c is inside a call it has begun
    call,           \* call[c]: the arguments of the reset in progress
    d_now,          \* the local `now` of listExpiredCb
    rollover,       \* the local `rollover` of listExpiredCb
    cbs,            \* the vector listExpiredCb fills: the m_cb pushed, and
                    \* the timer it was copied from
    \* --- observation ---
    frontCalls,     \* onTimerInsertedAtFront calls since the last getNextTimer
    cancelOk,       \* timers on which cancel() has returned true
    raced           \* a key of the std::set was written while in the set

timerVars ==
    << now, m_timers, m_tickled, m_previouseTime, tm_mutex, created, timer_cb,
       m_ms, m_next, m_recurring, tpc, call, d_now, rollover, cbs, frontCalls,
       cancelOk, raced >>

VARIABLES
    \* --- IOManager ---
    m_fdContexts,   \* m_fdContexts.size(): every entry below it is allocated
    events,         \* events[fd]: FdContext::events, the set of its bits
    ctx,            \* ctx[fd][e]: FdContext::read (e = READ), ::write
    m_pendingEventCount,
    \* --- callers of addEvent ---
    iopc,           \* iopc[who]: "grow" between the two locks of addEvent
    iocall,         \* iocall[who]: the fd argument of that addEvent
    \* --- observation ---
    ret             \* the last call of addEvent / triggerEvent and its result

ioVars ==
    << m_fdContexts, events, ctx, m_pendingEventCount, iopc, iocall, ret >>

VARIABLES
    \* --- Fiber used directly by a thread ---
    m_runInScheduler,   \* m_runInScheduler[f]
    m_ctx,              \* m_ctx[f]: the code that continues when swapped in
    exec,               \* the code the thread executes: UserCode or a fiber
    t_scheduler_fiber,  \* the thread-local t_scheduler_fiber of the thread
    \* --- observation ---
    trace,              \* trace[f]: the states of f since it was made READY
    fresets             \* calls of reset() so far

fiberVars ==
    << m_runInScheduler, m_ctx, exec, t_scheduler_fiber, trace, fresets >>

vars == << schedVars, timerVars, ioVars, fiberVars >>

\* m_threadCount after the constructor: scheduler.cpp:28-43
ThreadCount == IF useCaller THEN nThreads - 1 ELSE nThreads
Workers == 1 .. ThreadCount
\* m_rootThread: scheduler.cpp:39, scheduler.h:129
RootThread == IF useCaller THEN CallerTid ELSE AnyThread

(***************************************************************************)
(* Scheduler::Scheduler and the construction of the user fibers.           *)
(***************************************************************************)
SchedInit ==
    /\ useCaller \in BOOLEAN
    /\ nThreads \in 1 .. MaxThreads
    /\ m_stopping = FALSE
    /\ m_mutex = NoOwner
    /\ m_tasks = << >>
    /\ m_activeThreadCount = 0
    /\ m_idleThreadCount = 0
    /\ mpc = "start"
    /\ stopper = "none"
    /\ wpc = [w \in AllWorkers |-> "off"]
    /\ task = [w \in AllWorkers |-> NoTask]
    /\ tickle_me = [w \in AllWorkers |-> FALSE]
    \* use_caller: Fiber::GetThis() makes the caller's main fiber current
    /\ t_fiber = [th \in Threads |->
                    IF th = CallerTid /\ useCaller THEN RootFiber(CallerTid)
                    ELSE NullFiber]
    /\ \E e \in FiberEntries :
         /\ m_cb = [f \in FiberIds |->
                      IF f \in UserFibers THEN e
                      ELSE IF f = SchedFiber /\ useCaller THEN "run"
                      ELSE "null"]
    /\ m_state = [f \in FiberIds |->
                    IF f \in UserFibers THEN "READY"
                    ELSE IF f = SchedFiber /\ useCaller THEN "READY"
                    ELSE IF f = RootFiber(CallerTid) /\ useCaller THEN "RUNNING"
                    ELSE "NONE"]
    /\ ip = [f \in FiberIds |-> 0]
    /\ counter = 0
    /\ nextTask = 1
    /\ dispatched = [t \in TaskIds |-> 0]
    /\ fault = "none"

(***************************************************************************)
(* Helpers that follow the code's own helpers.                             *)
(***************************************************************************)
\* Scheduler::GetThis() == this on the thread that calls stop():
\* the constructor runs SetThis() on its thread whatever use_caller is
\* (scheduler.cpp:24); a thread that never ran the constructor or run()
\* has t_scheduler == nullptr (scheduler.cpp:7)
GetThisIsThis(who) == who = "ctor"

\* Scheduler::stopping(): scheduler.cpp:209-212 (the caller holds m_mutex)
Stopping == m_stopping /\ m_tasks = << >> /\ m_activeThreadCount = 0

\* the body of scheduleLock's critical section: scheduler.h:44-47
ScheduleLock(q, t) ==
    IF t.fiber # NullFiber \/ t.cb # "null" THEN Append(q, t) ELSE q

\* a scan that forgets the test of the target thread
ScanFrom_NoPinCheck(q, i, tid) == IF i > Len(q) THEN 0 ELSE i

\* the scan of run(): scheduler.cpp:99-117.  The index of the task the loop
\* stops at, starting at index i, for the thread with id tid; 0 when the
\* loop runs off the end of the queue.
RECURSIVE ScanFrom(_, _, _)
ScanFrom(q, i, tid) ==
    IF i > Len(q) THEN 0
    ELSE IF q[i].thread # AnyThread /\ q[i].thread # tid
         THEN ScanFrom(q, i + 1, tid)
         ELSE i

\* whether the scan passed over a task pinned to another thread before it
\* stopped at index k (0: it ran off the end): scheduler.cpp:104-109
Skipped(q, k) == IF k = 0 THEN Len(q) > 0 ELSE k > 1

\* the values `it != m_tasks.end()` can have at scheduler.cpp:119.  When the
\* loop ran off the end, it is end().  When a task was taken at index k, `it`
\* was advanced past it before m_tasks.erase() ran on the std::vector
\* (scheduler.cpp:114, scheduler.h:121), which invalidates it: reading it is
\* undefined.
ItNotEnd(q, k) == IF k = 0 THEN {FALSE} ELSE BOOLEAN

\* the values of the left operand at scheduler.cpp:119.  It is written
\* `tickle`, the member function (scheduler.cpp:196), not the local
\* tickle_me of line 95: as the name of a function it tests true, as the
\* local it is the flag set at line 107.
TickleOperand(skipped) == {TRUE, skipped}

\* the values tickle_me can have after scheduler.cpp:119
TickleMe(q, k) ==
    {a \/ b : a \in TickleOperand(Skipped(q, k)), b \in ItNotEnd(q, k)}

\* `bool tickle_me = false` at the head of the loop of run(), which worker
\* w reaches again: scheduler.cpp:93-95
LoopHead(w) == [tickle_me EXCEPT ![w] = FALSE]

\* an erase of the queue's head instead of the task taken
EraseAt_Front(q, k) == Tail(q)

\* a copy of the task that leaves it in the queue
EraseAt_Keep(q, k) == q

\* m_tasks.erase(it): scheduler.cpp:114
EraseAt(q, k) == SubSeq(q, 1, k - 1) \o SubSeq(q, k + 1, Len(q))

\* the fiber whose stack worker w executes on while it runs its task
ExecFiber(w) ==
    IF task[w].fiber # NullFiber THEN task[w].fiber
    ELSE IF task[w].cb # "null" THEN CbFiber(task[w].id)
    ELSE IdleFiber(w)

\* fiber f has not finished the swapcontext of its last yield (or is still
\* running): some thread still executes on f's stack
OnSomeStack(f) ==
    \E v \in AllWorkers : wpc[v] \in {"fiber", "yielding"} /\ ExecFiber(v) = f

Running == fault = "none"

(***************************************************************************)
(* The thread that uses the scheduler: start(), scheduleLock()*, stop().   *)
(***************************************************************************)
\* Scheduler::start(): scheduler.cpp:59-76.  Each Thread constructor returns
\* once its thread runs (thread.cpp:32-43, 64-79).  Taken with it is what
\* each new thread does in run() before its loop (scheduler.cpp:80-92), all
\* of it local to the thread: thread_id != m_rootThread, so Fiber::GetThis()
\* creates the thread's main fiber (fiber.cpp:25-35, 54-68), and
\* make_shared<Fiber>(idle) creates the idle fiber (fiber.cpp:74-96).
Start ==
    /\ Running /\ mpc = "start" /\ m_mutex = NoOwner
    /\ IF m_stopping
       THEN UNCHANGED << wpc, m_state, m_cb, t_fiber >>
       ELSE /\ wpc' = [w \in AllWorkers |-> IF w \in Workers THEN "scan" ELSE "off"]
            /\ m_state' = [f \in FiberIds |->
                 IF \E w \in Workers : f = RootFiber(w) THEN "RUNNING"
                 ELSE IF \E w \in Workers : f = IdleFiber(w) THEN "READY"
                 ELSE m_state[f]]
            /\ m_cb' = [f \in FiberIds |->
                 IF \E w \in Workers : f = IdleFiber(w) THEN "idle" ELSE m_cb[f]]
            /\ t_fiber' = [th \in Threads |->
                 IF th \in Workers THEN RootFiber(th) ELSE t_fiber[th]]
    /\ mpc' = "sched"
    /\ UNCHANGED << timerVars, ioVars, fiberVars, tickle_me >>
    /\ UNCHANGED << useCaller, nThreads, m_stopping, m_mutex, m_tasks,
                    m_activeThreadCount, m_idleThreadCount, stopper, task,
                    ip, counter, nextTask, dispatched,
                    fault >>

\* scheduleLock(fc, thread) called by the user's thread: scheduler.h:35-53
Schedule(t) ==
    /\ Running /\ mpc = "sched" /\ nextTask <= MaxTasks
    /\ m_mutex = NoOwner
    /\ m_tasks' = ScheduleLock(m_tasks, t)
    /\ nextTask' = nextTask + 1
    /\ UNCHANGED << timerVars, ioVars, fiberVars, tickle_me >>
    /\ UNCHANGED << useCaller, nThreads, m_stopping, m_mutex,
                    m_activeThreadCount, m_idleThreadCount, mpc, stopper, wpc,
                    task, t_fiber, m_state, m_cb, ip, counter, dispatched,
                    fault >>

ScheduleFiber ==
    \E f \in UserFibers, thr \in FiberPins :
        Schedule(FiberTask(nextTask, f, thr))

ScheduleCb ==
    \E c \in CbEntries, thr \in PinTargets :
        Schedule(CbTask(nextTask, c, thr))

\* stop() up to the join: scheduler.cpp:161-182, with
\* m_schedulerFiber->resume(), fiber.cpp:132-144.
\* m_schedulerFiber was constructed with run_in_scheduler = true and made the
\* caller thread's t_scheduler_fiber (scheduler.cpp:35-37), so resume() runs
\* swapcontext(&t_scheduler_fiber->m_ctx, &m_ctx) with both being the same
\* context: it saves the context of stop() and restores just that, and
\* stop() goes on; Scheduler::run is not entered on the caller thread.
StopBegin ==
    /\ Running /\ mpc = "sched" /\ m_mutex = NoOwner
    /\ \E who \in {"ctor", "other"} :
        /\ stopper' = who
        /\ IF Stopping
           THEN /\ mpc' = "done"
                /\ UNCHANGED << m_stopping, fault, m_state, t_fiber >>
           ELSE /\ m_stopping' = TRUE
                /\ IF (useCaller /\ ~GetThisIsThis(who))
                      \/ (~useCaller /\ GetThisIsThis(who))
                   THEN /\ fault' = "assert_stop"
                        /\ UNCHANGED << mpc, m_state, t_fiber >>
                   ELSE IF ~useCaller
                   THEN /\ mpc' = "join"
                        /\ UNCHANGED << fault, m_state, t_fiber >>
                   ELSE IF m_state[SchedFiber] # "READY"
                   THEN /\ fault' = "assert_resume"
                        /\ UNCHANGED << mpc, m_state, t_fiber >>
                   ELSE /\ m_state' = [m_state EXCEPT ![SchedFiber] = "RUNNING"]
                        /\ t_fiber' = [t_fiber EXCEPT ![CallerTid] = SchedFiber]
                        /\ mpc' = "join"
                        /\ UNCHANGED fault
    /\ UNCHANGED << timerVars, ioVars, fiberVars, tickle_me >>
    /\ UNCHANGED << useCaller, nThreads, m_mutex, m_tasks, m_activeThreadCount,
                    m_idleThreadCount, wpc, task, m_cb, ip, counter, nextTask,
                    dispatched >>

\* stop(): thrs.swap(m_threads) under m_mutex, join every worker, return:
\* scheduler.cpp:185-193, thread.cpp:53-62
StopJoin ==
    /\ Running /\ mpc = "join" /\ m_mutex = NoOwner
    /\ \A w \in Workers : wpc[w] = "exited"
    /\ mpc' = "done"
    /\ UNCHANGED << timerVars, ioVars, fiberVars, tickle_me >>
    /\ UNCHANGED << useCaller, nThreads, m_stopping, m_mutex, m_tasks,
                    m_activeThreadCount, m_idleThreadCount, stopper, wpc, task,
                    t_fiber, m_state, m_cb, ip, counter, nextTask, dispatched,
                    fault >>

(***************************************************************************)
(* A worker thread: Thread::run, then Scheduler::run.                      *)
(***************************************************************************)
\* run(), one turn of the loop that finds no task: scheduler.cpp:94-124 and
\* 148-156: leave the loop when the idle fiber is TERM, else resume it
\* (fiber.cpp:132-144)
ScanNone(w) ==
    /\ Running /\ wpc[w] = "scan" /\ m_mutex = NoOwner
    /\ ScanFrom(m_tasks, 1, w) = 0
    /\ \E t \in TickleMe(m_tasks, 0) : tickle_me' = [tickle_me EXCEPT ![w] = t]
    /\ IF m_state[IdleFiber(w)] = "TERM"
       THEN /\ wpc' = [wpc EXCEPT ![w] = "exited"]
            /\ UNCHANGED << m_idleThreadCount, m_state, t_fiber >>
       ELSE /\ m_idleThreadCount' = m_idleThreadCount + 1
            /\ m_state' = [m_state EXCEPT ![IdleFiber(w)] = "RUNNING"]
            /\ t_fiber' = [t_fiber EXCEPT ![w] = IdleFiber(w)]
            /\ wpc' = [wpc EXCEPT ![w] = "idle"]
    /\ UNCHANGED << timerVars, ioVars, fiberVars >>
    /\ UNCHANGED << useCaller, nThreads, m_stopping, m_mutex, m_tasks,
                    m_activeThreadCount, mpc, stopper, task, m_cb, ip, counter,
                    nextTask, dispatched, fault >>

\* run(), one turn of the loop that takes a task: scheduler.cpp:94-124.
\* A callable task is wrapped in a new fiber, which is resumed under that
\* fiber's own mutex (scheduler.cpp:137-143, fiber.cpp:74-96, 132-144); a
\* fiber task goes on to lock m_mutex (ExecFiberTask).
ScanTake(w) ==
    /\ Running /\ wpc[w] = "scan" /\ m_mutex = NoOwner
    /\ LET k == ScanFrom(m_tasks, 1, w) IN
         /\ k # 0
         /\ \E t \in TickleMe(m_tasks, k) :
               tickle_me' = [tickle_me EXCEPT ![w] = t]
         /\ task' = [task EXCEPT ![w] = m_tasks[k]]
         /\ m_tasks' = EraseAt(m_tasks, k)
         /\ m_activeThreadCount' = m_activeThreadCount + 1
         /\ dispatched' = [dispatched EXCEPT ![m_tasks[k].id] = @ + 1]
         /\ IF m_tasks[k].fiber # NullFiber
            THEN /\ wpc' = [wpc EXCEPT ![w] = "exec"]
                 /\ UNCHANGED << m_cb, m_state, t_fiber, ip, counter >>
            ELSE LET f == CbFiber(m_tasks[k].id)
                     n == IncsFrom(m_tasks[k].cb, 0) IN
                 /\ m_cb' = [m_cb EXCEPT ![f] = m_tasks[k].cb]
                 /\ m_state' = [m_state EXCEPT ![f] = "RUNNING"]
                 /\ t_fiber' = [t_fiber EXCEPT ![w] = f]
                 /\ ip' = [ip EXCEPT ![f] = n]
                 /\ counter' = counter + n
                 /\ wpc' = [wpc EXCEPT ![w] = "fiber"]
    /\ UNCHANGED << timerVars, ioVars, fiberVars >>
    /\ UNCHANGED << useCaller, nThreads, m_stopping, m_mutex,
                    m_idleThreadCount, mpc, stopper, nextTask, fault >>

\* run(), a fiber task: lock m_mutex, resume unless TERM: scheduler.cpp:127-136
\* with Fiber::resume, fiber.cpp:132-144.  The lock_guard on m_mutex lives
\* until resume() returns, that is until the fiber yields or ends.
ExecFiberTask(w) ==
    /\ Running /\ wpc[w] = "exec" /\ task[w].fiber # NullFiber
    /\ m_mutex = NoOwner
    /\ LET f == task[w].fiber
           n == IncsFrom(m_cb[f], ip[f]) IN
         IF m_state[f] = "TERM"
         THEN /\ m_activeThreadCount' = m_activeThreadCount - 1
              /\ task' = [task EXCEPT ![w] = NoTask]
              /\ wpc' = [wpc EXCEPT ![w] = "scan"]
              /\ UNCHANGED << m_mutex, m_state, t_fiber, ip, counter, fault >>
         ELSE IF m_state[f] # "READY"
         THEN \* assert(m_state == READY) fails: fiber.cpp:134
              /\ fault' = "assert_resume"
              /\ UNCHANGED << m_mutex, m_state, t_fiber, task, wpc, ip,
                              counter, m_activeThreadCount >>
         ELSE IF OnSomeStack(f)
         THEN \* swapcontext into a context whose thread has not left it
              /\ fault' = "resume_mid_yield"
              /\ UNCHANGED << m_mutex, m_state, t_fiber, task, wpc, ip,
                              counter, m_activeThreadCount >>
         ELSE /\ m_mutex' = w
              /\ m_state' = [m_state EXCEPT ![f] = "RUNNING"]
              /\ t_fiber' = [t_fiber EXCEPT ![w] = f]
              /\ ip' = [ip EXCEPT ![f] = @ + n]
              /\ counter' = counter + n
              /\ wpc' = [wpc EXCEPT ![w] = "fiber"]
              /\ UNCHANGED << task, m_activeThreadCount, fault >>
    /\ tickle_me' = IF m_state[task[w].fiber] = "TERM" THEN LoopHead(w)
                    ELSE tickle_me
    /\ UNCHANGED << timerVars, ioVars, fiberVars >>
    /\ UNCHANGED << useCaller, nThreads, m_stopping, m_tasks,
                    m_idleThreadCount, mpc, stopper, m_cb, nextTask,
                    dispatched >>

\* Scheduler::idle() in the idle fiber, one turn of its loop, back to run():
\* scheduler.cpp:201-206, 155; it ends through Fiber::MainFunc,
\* fiber.cpp:194-201, or yields, fiber.cpp:158-173
IdleTurn(w) ==
    /\ Running /\ wpc[w] = "idle" /\ m_mutex = NoOwner
    /\ IF Stopping
       THEN /\ m_state' = [m_state EXCEPT ![IdleFiber(w)] = "TERM"]
            /\ m_cb' = [m_cb EXCEPT ![IdleFiber(w)] = "null"]
       ELSE /\ m_state' = [m_state EXCEPT ![IdleFiber(w)] = "READY"]
            /\ UNCHANGED m_cb
    /\ t_fiber' = [t_fiber EXCEPT ![w] = RootFiber(w)]
    /\ m_idleThreadCount' = m_idleThreadCount - 1
    /\ wpc' = [wpc EXCEPT ![w] = "scan"]
    /\ tickle_me' = LoopHead(w)
    /\ UNCHANGED << timerVars, ioVars, fiberVars >>
    /\ UNCHANGED << useCaller, nThreads, m_stopping, m_mutex, m_tasks,
                    m_activeThreadCount, mpc, stopper, task, ip, counter,
                    nextTask, dispatched, fault >>

(***************************************************************************)
(* A task's fiber running on worker w: Fiber::MainFunc runs the entry.     *)
(* The entry's increments of the counter are taken together with the step  *)
(* that precedes them on the same thread.                                  *)
(***************************************************************************)
\* a MainFunc that leaves the entry in place
ClearedCb_Kept(f) == m_cb

\* `cur->m_cb = nullptr` of Fiber::MainFunc: fiber.cpp:196
ClearedCb(f) == [m_cb EXCEPT ![f] = "null"]

OpAt(f, i) ==
    IF i < Len(Body(m_cb[f])) THEN Body(m_cb[f])[i + 1] ELSE "return"

\* the next operation of f that is not an increment
NextOp(f) == OpAt(f, ip[f])

\* the entry calls scheduleLock(Fiber::GetThis()): scheduler.h:35-53.
\* m_mutex is a std::mutex: the call waits while any thread holds it, the
\* calling thread included.
FiberSched(w) ==
    /\ Running /\ wpc[w] = "fiber" /\ NextOp(ExecFiber(w)) = "sched"
    /\ m_mutex = NoOwner
    /\ LET f == ExecFiber(w)
           n == IncsFrom(m_cb[f], ip[f] + 1) IN
         /\ m_tasks' = ScheduleLock(m_tasks, FiberTask(MaxTasks + f, f, AnyThread))
         /\ ip' = [ip EXCEPT ![f] = @ + 1 + n]
         /\ counter' = counter + n
    /\ UNCHANGED << timerVars, ioVars, fiberVars, tickle_me >>
    /\ UNCHANGED << useCaller, nThreads, m_stopping, m_mutex,
                    m_activeThreadCount, m_idleThreadCount, mpc, stopper, wpc,
                    task, t_fiber, m_state, m_cb, nextTask, dispatched, fault >>

\* Fiber::yield() up to its swapcontext: fiber.cpp:158-168
FiberYield(w) ==
    /\ Running /\ wpc[w] = "fiber" /\ NextOp(ExecFiber(w)) = "yield"
    /\ LET f == ExecFiber(w) IN
         /\ m_state' = [m_state EXCEPT ![f] = IF @ # "TERM" THEN "READY" ELSE @]
         /\ ip' = [ip EXCEPT ![f] = @ + 1]
    /\ t_fiber' = [t_fiber EXCEPT ![w] = RootFiber(w)]
    /\ wpc' = [wpc EXCEPT ![w] = "yielding"]
    /\ UNCHANGED << timerVars, ioVars, fiberVars, tickle_me >>
    /\ UNCHANGED << useCaller, nThreads, m_stopping, m_mutex, m_tasks,
                    m_activeThreadCount, m_idleThreadCount, mpc, stopper, task,
                    m_cb, counter, nextTask, dispatched, fault >>

\* the swapcontext of yield() back into run(), which leaves the lock_guard
\* of its block, counts the thread inactive and resets the task:
\* fiber.cpp:169, scheduler.cpp:133-135, 143-145
YieldSwap(w) ==
    /\ Running /\ wpc[w] = "yielding"
    /\ m_mutex' = IF m_mutex = w THEN NoOwner ELSE m_mutex
    /\ m_activeThreadCount' = m_activeThreadCount - 1
    /\ task' = [task EXCEPT ![w] = NoTask]
    /\ wpc' = [wpc EXCEPT ![w] = "scan"]
    /\ tickle_me' = LoopHead(w)
    /\ UNCHANGED << timerVars, ioVars, fiberVars >>
    /\ UNCHANGED << useCaller, nThreads, m_stopping, m_tasks,
                    m_idleThreadCount, mpc, stopper, t_fiber, m_state, m_cb,
                    ip, counter, nextTask, dispatched, fault >>

\* the entry returns to Fiber::MainFunc, which clears it, sets TERM and
\* yields back into run() for good: fiber.cpp:194-201, 158-169,
\* scheduler.cpp:133-135, 143-145
FiberReturn(w) ==
    /\ Running /\ wpc[w] = "fiber" /\ NextOp(ExecFiber(w)) = "return"
    /\ LET f == ExecFiber(w) IN
         /\ m_cb' = ClearedCb(f)
         /\ m_state' = [m_state EXCEPT ![f] = "TERM"]
    /\ t_fiber' = [t_fiber EXCEPT ![w] = RootFiber(w)]
    /\ m_mutex' = IF m_mutex = w THEN NoOwner ELSE m_mutex
    /\ m_activeThreadCount' = m_activeThreadCount - 1
    /\ task' = [task EXCEPT ![w] = NoTask]
    /\ wpc' = [wpc EXCEPT ![w] = "scan"]
    /\ tickle_me' = LoopHead(w)
    /\ UNCHANGED << timerVars, ioVars, fiberVars >>
    /\ UNCHANGED << useCaller, nThreads, m_stopping, m_tasks,
                    m_idleThreadCount, mpc, stopper, ip, counter, nextTask,
                    dispatched, fault >>

(***************************************************************************)
(* Timer and TimerManager: timer.cpp.  Time is counted in units of the     *)
(* rollover window, the clock reads 0 .. MaxNow.                           *)
(***************************************************************************)
\* no timer: an iterator equal to m_timers.end()
NoTimer == 0
Timers == 1 .. MaxTimers
\* the threads that call into the TimerManager
TimerCallers == {1, 2}
Periods == 0 .. MaxPeriod
\* 60 * 60 * 1000 ms, one unit of the model's clock: timer.cpp:203
RolloverWindow == 1

NoCall == [timer |-> NoTimer, ms |-> 0, from_now |-> FALSE]

\* Timer::Comparator: timer.cpp:91-94.  lhs orders before rhs
Comparator(nx, lhs, rhs) == nx[lhs] < nx[rhs]
\* the equivalence std::set derives from its comparator
Equivalent(nx, a, b) == ~Comparator(nx, a, b) /\ ~Comparator(nx, b, a)

\* m_timers.find(timer): the element equivalent to the timer, or end()
Find(S, nx, t) ==
    IF \E u \in S : Equivalent(nx, u, t)
    THEN CHOOSE u \in S : Equivalent(nx, u, t)
    ELSE NoTimer

\* m_timers.insert(timer): no insertion when an equivalent element is there
Insert(S, nx, t) ==
    IF \E u \in S : Equivalent(nx, u, t) THEN S ELSE S \cup {t}

\* *m_timers.begin()
Begin(S, nx) == CHOOSE t \in S : \A u \in S : ~Comparator(nx, u, t)

\* TimerManager::TimerManager: timer.cpp:96-98, and no Timer constructed
TimerManagerInit ==
    /\ now = 0
    /\ m_timers = {}
    /\ m_tickled = FALSE
    /\ m_previouseTime = 0
    /\ tm_mutex = NoOwner
    /\ created = {}
    /\ timer_cb = [t \in Timers |-> "null"]
    /\ m_ms = [t \in Timers |-> 0]
    /\ m_next = [t \in Timers |-> 0]
    /\ m_recurring = [t \in Timers |-> FALSE]
    /\ tpc = [c \in TimerCallers |-> "idle"]
    /\ call = [c \in TimerCallers |-> NoCall]
    /\ d_now = 0
    /\ rollover = FALSE
    /\ cbs = << >>
    /\ frontCalls = 0
    /\ cancelOk = {}
    /\ raced = FALSE

TimerRunning == ~raced

\* the system clock moves forward
ClockAdvance ==
    /\ TimerRunning /\ now < MaxNow
    /\ now' = now + 1
    /\ UNCHANGED << schedVars, ioVars, fiberVars >>
    /\ UNCHANGED << m_timers, m_tickled, m_previouseTime, tm_mutex, created,
                    timer_cb, m_ms, m_next, m_recurring, tpc, call, d_now,
                    rollover, cbs, frontCalls, cancelOk, raced >>

\* the system clock is set back (std::chrono::system_clock is not steady)
ClockStepBack ==
    /\ TimerRunning
    /\ \E n \in 0 .. (now - 1) : now' = n
    /\ UNCHANGED << schedVars, ioVars, fiberVars >>
    /\ UNCHANGED << m_timers, m_tickled, m_previouseTime, tm_mutex, created,
                    timer_cb, m_ms, m_next, m_recurring, tpc, call, d_now,
                    rollover, cbs, frontCalls, cancelOk, raced >>

\* TimerManager::addTimer(std::shared_ptr<Timer>), its locked block:
\* timer.cpp:133-143, run by caller c for the timer t whose keys are nx.
\* With at_front the caller goes on to call onTimerInsertedAtFront after
\* the lock is released (timer.cpp:145-147).
AddTimerLocked(c, t, nx) ==
    LET S == Insert(m_timers, nx, t)
        at_front == Equivalent(nx, t, Begin(S, nx)) /\ ~m_tickled
    IN  /\ tm_mutex = NoOwner
        /\ m_timers' = S
        /\ m_tickled' = (m_tickled \/ at_front)
        /\ tpc' = [tpc EXCEPT ![c] = IF at_front THEN "front_call" ELSE "idle"]

\* TimerManager::addTimer, the call of onTimerInsertedAtFront made with no
\* lock held: timer.cpp:145-147
FrontCall(c) ==
    /\ TimerRunning /\ tpc[c] = "front_call"
    /\ frontCalls' = frontCalls + 1
    /\ tpc' = [tpc EXCEPT ![c] = "idle"]
    /\ UNCHANGED << schedVars, ioVars, fiberVars >>
    /\ UNCHANGED << now, m_timers, m_tickled, m_previouseTime, tm_mutex,
                    created, timer_cb, m_ms, m_next, m_recurring, call, d_now,
                    rollover, cbs, cancelOk, raced >>

\* a thread that is not inside a call of the TimerManager
Idle(c) == tpc[c] = "idle"

\* TimerManager::addTimer(ms, cb, recurring): timer.cpp:104-108, with the
\* constructor Timer::Timer, timer.cpp:84-88
AddTimer(c) ==
    /\ TimerRunning /\ Idle(c)
    /\ \E ms \in Periods, rec \in BOOLEAN :
         \E t \in Timers \ created :
            LET nx == [m_next EXCEPT ![t] = now + ms]
            IN  /\ \A u \in Timers \ created : t <= u
                /\ AddTimerLocked(c, t, nx)
                /\ m_next' = nx
                /\ m_ms' = [m_ms EXCEPT ![t] = ms]
                /\ m_recurring' = [m_recurring EXCEPT ![t] = rec]
                /\ timer_cb' = [timer_cb EXCEPT ![t] = "cb"]
                /\ created' = created \cup {t}
    /\ UNCHANGED << schedVars, ioVars, fiberVars >>
    /\ UNCHANGED << now, m_previouseTime, tm_mutex, call, d_now, rollover,
                    cbs, frontCalls, cancelOk, raced >>

\* the value Timer::cancel returns for timer t: timer.cpp:14-16, 23
CancelReturns(t) == timer_cb[t] # "null"

\* the value Timer::refresh returns for timer t: timer.cpp:35-42, 47
RefreshReturns(t) ==
    timer_cb[t] # "null" /\ Find(m_timers, m_next, t) # NoTimer

\* Timer::reset leaves at its first test: timer.cpp:59-61
ResetEarly(t, ms, from_now) == ms = m_ms[t] /\ ~from_now

\* the value Timer::reset(ms, from_now) returns for timer t: timer.cpp:59-71,
\* 80
ResetReturns(t, ms, from_now) ==
    \/ ResetEarly(t, ms, from_now)
    \/ (timer_cb[t] # "null" /\ Find(m_timers, m_next, t) # NoTimer)

\* Timer::cancel: timer.cpp:11-24
Cancel(c) ==
    /\ TimerRunning /\ Idle(c)
    /\ tm_mutex = NoOwner
    /\ \E t \in created :
         IF ~CancelReturns(t)
         THEN UNCHANGED << timer_cb, m_timers, cancelOk >>
         ELSE LET it == Find(m_timers, m_next, t)
              IN  /\ timer_cb' = [timer_cb EXCEPT ![t] = "null"]
                  /\ m_timers' = m_timers \ {it}
                  /\ cancelOk' = cancelOk \cup {t}
    /\ UNCHANGED << schedVars, ioVars, fiberVars >>
    /\ UNCHANGED << now, m_tickled, m_previouseTime, tm_mutex, created, m_ms,
                    m_next, m_recurring, tpc, call, d_now, rollover, cbs,
                    frontCalls, raced >>

\* Timer::refresh: timer.cpp:32-48
Refresh(c) ==
    /\ TimerRunning /\ Idle(c)
    /\ tm_mutex = NoOwner
    /\ \E t \in created :
         LET it == Find(m_timers, m_next, t)
             nx == [m_next EXCEPT ![t] = now + m_ms[t]]
         IN  IF ~RefreshReturns(t)
             THEN UNCHANGED << m_timers, m_next >>
             ELSE /\ m_timers' = Insert(m_timers \ {it}, nx, t)
                  /\ m_next' = nx
    /\ UNCHANGED << schedVars, ioVars, fiberVars >>
    /\ UNCHANGED << now, m_tickled, m_previouseTime, tm_mutex, created,
                    timer_cb, m_ms, m_recurring, tpc, call, d_now, rollover,
                    cbs, frontCalls, cancelOk, raced >>

\* the callers that are between the two locked blocks of Timer::reset
InReset == {c \in TimerCallers : tpc[c] \in {"reset_compute", "reset_insert"}}

\* Timer::reset up to the end of its locked block: timer.cpp:58-73
ResetCheck(c) ==
    /\ TimerRunning /\ Idle(c)
    /\ Cardinality(InReset) < MaxResets
    /\ \E t \in created, ms \in Periods, from_now \in BOOLEAN :
         LET it == Find(m_timers, m_next, t)
         IN  IF ResetEarly(t, ms, from_now)
             THEN UNCHANGED << m_timers, tpc, call >>
             ELSE /\ tm_mutex = NoOwner
                  /\ IF ~ResetReturns(t, ms, from_now)
                     THEN UNCHANGED << m_timers, tpc, call >>
                     ELSE /\ m_timers' = m_timers \ {it}
                          /\ tpc' = [tpc EXCEPT ![c] = "reset_compute"]
                          /\ call' = [call EXCEPT ![c] =
                                 [timer |-> t, ms |-> ms, from_now |-> from_now]]
    /\ UNCHANGED << schedVars, ioVars, fiberVars >>
    /\ UNCHANGED << now, m_tickled, m_previouseTime, tm_mutex, created,
                    timer_cb, m_ms, m_next, m_recurring, d_now, rollover, cbs,
                    frontCalls, cancelOk, raced >>

\* Timer::reset, the writes made with no lock held: timer.cpp:76-78.
\* Writing m_next of a timer that is in the std::set breaks the set
\* (a data race with the lock holders too): the model stops there.
ResetCompute(c) ==
    /\ TimerRunning /\ tpc[c] = "reset_compute"
    /\ LET t == call[c].timer
           start == IF call[c].from_now THEN now ELSE m_next[t] - m_ms[t]
       IN  /\ m_ms' = [m_ms EXCEPT ![t] = call[c].ms]
           /\ m_next' = [m_next EXCEPT ![t] = start + call[c].ms]
           /\ raced' = (t \in m_timers)
    /\ tpc' = [tpc EXCEPT ![c] = "reset_insert"]
    /\ UNCHANGED << schedVars, ioVars, fiberVars >>
    /\ UNCHANGED << now, m_timers, m_tickled, m_previouseTime, tm_mutex,
                    created, timer_cb, m_recurring, call, d_now, rollover, cbs,
                    frontCalls, cancelOk >>

\* Timer::reset, m_manager->addTimer(shared_from_this()): timer.cpp:79-80
ResetInsert(c) ==
    /\ TimerRunning /\ tpc[c] = "reset_insert"
    /\ AddTimerLocked(c, call[c].timer, m_next)
    /\ call' = [call EXCEPT ![c] = NoCall]
    /\ UNCHANGED << schedVars, ioVars, fiberVars >>
    /\ UNCHANGED << now, m_previouseTime, tm_mutex, created, timer_cb, m_ms,
                    m_next, m_recurring, d_now, rollover, cbs, frontCalls,
                    cancelOk, raced >>

\* TimerManager::detectClockRollover: timer.cpp:200-209
DetectClockRollover == now < m_previouseTime - RolloverWindow

\* the condition of the loop of listExpiredCb: timer.cpp:179
LoopCond ==
    /\ m_timers # {}
    /\ (rollover \/ m_next[Begin(m_timers, m_next)] <= d_now)

\* TimerManager::listExpiredCb up to its loop: timer.cpp:172-176
DrainBegin(c) ==
    /\ TimerRunning /\ Idle(c)
    /\ tm_mutex = NoOwner
    /\ tm_mutex' = c
    /\ d_now' = now
    /\ rollover' = DetectClockRollover
    /\ m_previouseTime' = now
    /\ cbs' = << >>
    /\ tpc' = [tpc EXCEPT ![c] = "drain"]
    /\ UNCHANGED << schedVars, ioVars, fiberVars >>
    /\ UNCHANGED << now, m_timers, m_tickled, created, timer_cb, m_ms, m_next,
                    m_recurring, call, frontCalls, cancelOk, raced >>

\* one turn of the loop of listExpiredCb: timer.cpp:179-191
DrainIter(c) ==
    /\ TimerRunning /\ tpc[c] = "drain"
    /\ LoopCond
    /\ Len(cbs) < MaxCbs
    /\ LET temp == Begin(m_timers, m_next)
           rest == m_timers \ {temp}
           nx == [m_next EXCEPT ![temp] = d_now + m_ms[temp]]
       IN  /\ cbs' = Append(cbs, [timer |-> temp, cb |-> timer_cb[temp]])
           /\ IF m_recurring[temp]
              THEN /\ m_next' = nx
                   /\ m_timers' = Insert(rest, nx, temp)
                   /\ UNCHANGED timer_cb
              ELSE /\ timer_cb' = [timer_cb EXCEPT ![temp] = "null"]
                   /\ m_timers' = rest
                   /\ UNCHANGED m_next
    /\ UNCHANGED << schedVars, ioVars, fiberVars >>
    /\ UNCHANGED << now, m_tickled, m_previouseTime, tm_mutex, created, m_ms,
                    m_recurring, tpc, call, d_now, rollover, frontCalls,
                    cancelOk, raced >>

\* listExpiredCb leaves its loop and returns: timer.cpp:179, 192
DrainEnd(c) ==
    /\ TimerRunning /\ tpc[c] = "drain"
    /\ ~LoopCond
    /\ tm_mutex' = NoOwner
    /\ tpc' = [tpc EXCEPT ![c] = "idle"]
    \* the locals go, and the caller consumes the vector
    /\ d_now' = 0 /\ rollover' = FALSE /\ cbs' = << >>
    /\ UNCHANGED << schedVars, ioVars, fiberVars >>
    /\ UNCHANGED << now, m_timers, m_tickled, m_previouseTime, created,
                    timer_cb, m_ms, m_next, m_recurring, call, frontCalls,
                    cancelOk, raced >>

\* TimerManager::getNextTimer: timer.cpp:151-169.  Its effect on the
\* TimerManager is the write of m_tickled; the delay it returns is computed
\* from m_timers and the clock and is not kept in the state.
GetNextTimer(c) ==
    /\ TimerRunning /\ Idle(c)
    /\ tm_mutex = NoOwner
    /\ m_tickled' = FALSE
    /\ frontCalls' = 0
    /\ UNCHANGED << schedVars, ioVars, fiberVars >>
    /\ UNCHANGED << now, m_timers, m_previouseTime, tm_mutex, created,
                    timer_cb, m_ms, m_next, m_recurring, tpc, call, d_now,
                    rollover, cbs, cancelOk, raced >>

CallerStep(c) ==
    \/ AddTimer(c)
    \/ Cancel(c)
    \/ Refresh(c)
    \/ ResetCheck(c)
    \/ ResetCompute(c)
    \/ ResetInsert(c)
    \/ FrontCall(c)
    \/ DrainBegin(c)
    \/ DrainIter(c)
    \/ DrainEnd(c)
    \/ GetNextTimer(c)

(***************************************************************************)
(* IOManager: the FdContext table, addEvent and FdContext::triggerEvent    *)
(* (ioscheduler.cpp, ioscheduler.h).  Of the IOManager's member functions  *)
(* these, the constructor, the destructor and contextResize are defined;   *)
(* the callers of triggerEvent (idle, cancelEvent, cancelAll) are declared *)
(* in ioscheduler.h and defined nowhere.                                   *)
(***************************************************************************)
\* IOManager::Event: ioscheduler.h:13-17
READ == 1
WRITE == 4
Events == {READ, WRITE}
\* contextResize(32) in the constructor: ioscheduler.cpp:78
InitialContexts == 32
\* file descriptors handed to addEvent: the first one beyond the table the
\* constructor allocates, and the first one beyond the table that one grows
Fds == {InitialContexts, 2 * InitialContexts}
\* the threads that call addEvent: the one that constructed the IOManager,
\* and one that neither constructed a scheduler nor runs Scheduler::run()
IoCallers == {"ctor", "other"}
\* the main fiber Fiber::GetThis() creates on the "other" thread (fiber.cpp:29)
OtherFiber == 400
\* the `cb` argument of addEvent, "null" being its default (ioscheduler.h:52)
IoCbs == {"null", "plain"}
\* what epoll_ctl returns: 0, or -1 with errno set
EpollResults == {0, -1}
\* the most registrations addEvent has counted before the model stops adding
MaxPending == 4

\* a default-constructed EventContext: ioscheduler.h:26-30
NoEventContext == [scheduler |-> "null", fiber |-> NullFiber, cb |-> "null"]

\* FdContext::getEventContext: ioscheduler.cpp:19-28
getEventContext(fd, event) == ctx[fd][event]

\* FdContext::resetEventContext: ioscheduler.cpp:31-35
resetEventContext(c) ==
    [c EXCEPT !.scheduler = "null", !.cb = "null", !.fiber = NullFiber]

\* `fd_ctx->events & event`: ioscheduler.cpp:129, 40
Registered(fd, event) == event \in events[fd]

\* Scheduler::GetThis() on the thread `who`: scheduler.cpp:7-12
SchedulerGetThis(who) == IF GetThisIsThis(who) THEN "this" ELSE "null"

\* Fiber::GetThis() on the thread `who`: fiber.cpp:25-35
FiberGetThis(who) ==
    IF who = "other" THEN OtherFiber
    ELSE IF t_fiber[CallerTid] # NullFiber THEN t_fiber[CallerTid]
    ELSE RootFiber(CallerTid)

\* no addEvent of the thread is between its two locks
NoIoCall == [fd |-> -1]

\* what a call has returned, and what it was given
NoRet == [op |-> "none", fd |-> -1, event |-> 0, dup |-> FALSE, os |-> 0,
          rt |-> 0]

\* the IOManager after contextResize(32) of its constructor:
\* ioscheduler.cpp:78, 97-107, ioscheduler.h:24-35, 78.  An fd at or beyond
\* m_fdContexts has no FdContext yet; events and ctx hold for it the values
\* contextResize will construct it with.
IOManagerInit ==
    /\ m_fdContexts = InitialContexts
    /\ events = [fd \in Fds |-> {}]
    /\ ctx = [fd \in Fds |-> [e \in Events |-> NoEventContext]]
    /\ m_pendingEventCount = 0
    /\ iopc = [who \in IoCallers |-> "idle"]
    /\ iocall = [who \in IoCallers |-> NoIoCall]
    /\ ret = NoRet

\* addEvent without the test of ioscheduler.cpp:129-130
AddEventRt_DupAccepted(dup, os) == IF os # 0 THEN -1 ELSE 0

\* the value addEvent returns, from whether `event` was registered already
\* and what epoll_ctl returned: ioscheduler.cpp:129-130, 137-141, 156
AddEventRt(dup, os) ==
    IF dup THEN -1
    ELSE IF os # 0 THEN -1
    ELSE 0

\* IOManager::contextResize(size), as the table and what it holds at each
\* index afterwards: ioscheduler.cpp:97-107.  m_fdContexts.resize(size)
\* makes the length `size` whatever it was: a smaller size drops the entries
\* at and beyond it, and a later, larger size constructs new FdContexts there.
ResizedEvents(size) ==
    [fd \in Fds |-> IF fd < size THEN events[fd] ELSE {}]

ResizedCtx(size) ==
    [fd \in Fds |->
        IF fd < size THEN ctx[fd] ELSE [e \in Events |-> NoEventContext]]

\* addEvent from the lock of fd_ctx->mutex to its return, on the table
\* contents ev and cx the lookup has left, with os the result of its
\* epoll_ctl: ioscheduler.cpp:126-157.
AddEventBody(who, fd, event, cb, os, ev, cx) ==
    LET dup == event \in ev[fd]
        rt == AddEventRt(dup, os)
        f == FiberGetThis(who)
    IN
    \* epoll_ctl is not reached on a registered event
    /\ dup => os = 0
    /\ ret' = [op |-> "addEvent", fd |-> fd, event |-> event, dup |-> dup,
               os |-> os, rt |-> rt]
    /\ IF rt < 0
       THEN /\ events' = ev
            /\ ctx' = cx
            /\ UNCHANGED << m_pendingEventCount, fault, t_fiber, m_state >>
       ELSE /\ m_pendingEventCount < MaxPending
            /\ m_pendingEventCount' = m_pendingEventCount + 1
            /\ events' = [ev EXCEPT ![fd] = @ \cup {event}]
            /\ IF cx[fd][event] # NoEventContext
               THEN /\ fault' = "assert_addEvent"
                    /\ ctx' = cx
                    /\ UNCHANGED << t_fiber, m_state >>
               ELSE IF cb # "null"
               THEN /\ ctx' = [cx EXCEPT ![fd][event] =
                                 [scheduler |-> SchedulerGetThis(who),
                                  fiber |-> NullFiber, cb |-> cb]]
                    /\ UNCHANGED << fault, t_fiber, m_state >>
               ELSE /\ ctx' = [cx EXCEPT ![fd][event] =
                                 [scheduler |-> SchedulerGetThis(who),
                                  fiber |-> f, cb |-> "null"]]
                    \* Fiber::GetThis() creates the main fiber of a
                    \* thread that has none, RUNNING (fiber.cpp:54-56)
                    /\ IF who = "ctor" /\ t_fiber[CallerTid] = NullFiber
                       THEN /\ t_fiber' = [t_fiber EXCEPT ![CallerTid] = f]
                            /\ m_state' = [m_state EXCEPT ![f] = "RUNNING"]
                            /\ UNCHANGED fault
                       ELSE /\ fault' = IF who = "ctor" /\ m_state[f] # "RUNNING"
                                        THEN "assert_addEvent" ELSE fault
                            /\ UNCHANGED << t_fiber, m_state >>
    /\ UNCHANGED << timerVars, fiberVars, tickle_me >>
    /\ UNCHANGED << useCaller, nThreads, m_stopping, m_mutex, m_tasks,
                    m_activeThreadCount, m_idleThreadCount, mpc, stopper, wpc,
                    task, m_cb, ip, counter, nextTask, dispatched >>

\* IOManager::addEvent(fd, event, cb) called on thread `who` for an fd the
\* table holds: ioscheduler.cpp:109-117, 126-157
AddEvent(who, fd, event, cb, os) ==
    /\ Running /\ mpc = "sched"
    /\ iopc[who] = "idle"
    /\ m_fdContexts > fd
    /\ AddEventBody(who, fd, event, cb, os, events, ctx)
    /\ UNCHANGED << m_fdContexts, iopc, iocall >>

\* IOManager::addEvent(fd, event, cb) called on thread `who` for an fd at or
\* beyond the end of the table, up to the release of the read lock:
\* ioscheduler.cpp:109-119.  The call reads `event` and `cb` after the
\* lookup only, and the model draws them there.
AddEventMiss(who, fd) ==
    /\ Running /\ mpc = "sched"
    /\ iopc[who] = "idle"
    /\ ~(m_fdContexts > fd)
    /\ iopc' = [iopc EXCEPT ![who] = "grow"]
    /\ iocall' = [iocall EXCEPT ![who] = [fd |-> fd]]
    /\ UNCHANGED << schedVars, timerVars, fiberVars >>
    /\ UNCHANGED << m_fdContexts, events, ctx, m_pendingEventCount, ret >>

\* the rest of that call: the write lock, contextResize(fd * 2), the lookup
\* and the body: ioscheduler.cpp:120-157
AddEventGrow(who, event, cb, os) ==
    /\ Running /\ mpc = "sched"
    /\ iopc[who] = "grow"
    /\ LET c == iocall[who] IN
       /\ m_fdContexts' = c.fd * 2
       /\ AddEventBody(who, c.fd, event, cb, os,
                       ResizedEvents(c.fd * 2), ResizedCtx(c.fd * 2))
    /\ iopc' = [iopc EXCEPT ![who] = "idle"]
    /\ iocall' = [iocall EXCEPT ![who] = NoIoCall]

\* the task triggerEvent hands to the scheduler of the EventContext c:
\* ioscheduler.cpp:44-49, through ScheduleTask(std::function<void()>*, int)
\* and ScheduleTask(std::shared_ptr<Fiber>*, int), scheduler.h:92-95, 104-107,
\* with the default thread = -1 (scheduler.h:36)
TriggerTask(c, id) ==
    IF c.cb # "null" THEN CbTask(id, c.cb, AnyThread)
    ELSE FiberTask(id, c.fiber, AnyThread)

\* FdContext::triggerEvent(event) on the FdContext of fd, called for an
\* event that is registered (the assert of line 40): ioscheduler.cpp:38-51.
\* With ctx.scheduler == nullptr the call through it has no defined
\* behaviour; the member it reaches first is m_mutex of no object, and the
\* model stops with a fault.
TriggerEvent(fd, event) ==
    /\ Running /\ mpc = "sched" /\ m_mutex = NoOwner /\ nextTask <= MaxTasks
    /\ Registered(fd, event)
    /\ events' = [events EXCEPT ![fd] = @ \ {event}]
    /\ ret' = [op |-> "triggerEvent", fd |-> fd, event |-> event,
               dup |-> FALSE, os |-> 0, rt |-> 0]
    /\ LET c == getEventContext(fd, event) IN
       IF c.scheduler = "null"
       THEN /\ fault' = "null_scheduler"
            /\ UNCHANGED << m_tasks, nextTask, ctx >>
       ELSE /\ m_tasks' = ScheduleLock(m_tasks, TriggerTask(c, nextTask))
            /\ nextTask' = nextTask + 1
            /\ ctx' = [ctx EXCEPT ![fd][event] = resetEventContext(c)]
            /\ UNCHANGED fault
    /\ UNCHANGED << timerVars, fiberVars, tickle_me >>
    /\ UNCHANGED << m_fdContexts, m_pendingEventCount, iopc, iocall >>
    /\ UNCHANGED << useCaller, nThreads, m_stopping, m_mutex,
                    m_activeThreadCount, m_idleThreadCount, mpc, stopper, wpc,
                    task, t_fiber, m_state, m_cb, ip, counter, dispatched >>

(***************************************************************************)
(* Fiber used directly: the thread that constructed the scheduler calls    *)
(* Fiber::GetThis(), resume() and reset() on the user fibers from its own  *)
(* code, and the fibers call yield() from their entries (fiber.cpp).       *)
(* A context (ucontext_t) is modelled by the code that continues when it   *)
(* is swapped in: UserCode for the thread's own code after a resume()      *)
(* call, a fiber id for that fiber's entry at ip (through MainFunc when it *)
(* has not run yet), RunCode for Scheduler::run, NoCode for a context      *)
(* nothing was saved in.                                                   *)
(***************************************************************************)
UserCode == -1
RunCode == -2
NoCode == -3

\* the entries reset() is given
ResetEntries == {"plain", "yield"}

\* the most reset() calls the thread makes
MaxFiberResets == 2

\* the thread-locals and the user fibers after the Scheduler constructor and
\* the construction of the fibers with run_in_scheduler = ris[f]:
\* fiber.cpp:8-12, 74-88, scheduler.cpp:30-37
FiberApiInit(ris) ==
    /\ m_runInScheduler = ris
    /\ m_ctx = [x \in FiberIds |->
                  IF x \in UserFibers THEN x
                  ELSE IF x = SchedFiber /\ useCaller THEN RunCode
                  ELSE NoCode]
    /\ exec = UserCode
    /\ t_scheduler_fiber = IF useCaller THEN SchedFiber ELSE NullFiber
    /\ trace = [f \in UserFibers |-> << "READY" >>]
    /\ fresets = 0

\* t_thread_fiber of the thread: set by Fiber::GetThis() when it creates the
\* main fiber, fiber.cpp:29-30
ThreadFiber ==
    IF m_state[RootFiber(CallerTid)] = "NONE" THEN NullFiber
    ELSE RootFiber(CallerTid)

\* the fiber whose context resume() saves into and yield() swaps to:
\* fiber.cpp:138-150, 167-179
ReturnFiber(f) == IF m_runInScheduler[f] THEN t_scheduler_fiber ELSE ThreadFiber

\* a resume() that refuses a RUNNING fiber only
ResumeAssert_NotRunning(f) == m_state[f] # "RUNNING"

\* the assertion of resume(): fiber.cpp:134
ResumeAssert(f) == m_state[f] = "READY"

\* Fiber::GetThis() called from the thread's code when it has no current
\* fiber: fiber.cpp:25-35, 54-56
GetThisCall ==
    /\ Running /\ exec = UserCode
    /\ t_fiber[CallerTid] = NullFiber
    /\ t_fiber' = [t_fiber EXCEPT ![CallerTid] = RootFiber(CallerTid)]
    /\ m_state' = [m_state EXCEPT ![RootFiber(CallerTid)] = "RUNNING"]
    /\ t_scheduler_fiber' = RootFiber(CallerTid)
    /\ UNCHANGED << timerVars, ioVars, tickle_me >>
    /\ UNCHANGED << m_runInScheduler, m_ctx, exec, trace, fresets >>
    /\ UNCHANGED << useCaller, nThreads, m_stopping, m_mutex, m_tasks,
                    m_activeThreadCount, m_idleThreadCount, mpc, stopper, wpc,
                    task, m_cb, ip, counter, nextTask, dispatched, fault >>

\* f->resume() called from the thread's code: fiber.cpp:132-152.  The entry
\* runs on to its next yield or its end within the step.
Resume(f) ==
    /\ Running /\ exec = UserCode
    /\ LET x == ReturnFiber(f)
           n == IncsFrom(m_cb[f], ip[f]) IN
       IF ~ResumeAssert(f)
       THEN /\ fault' = "assert_resume"
            /\ UNCHANGED << m_state, t_fiber, m_ctx, exec, trace, ip, counter >>
       ELSE IF x = NullFiber
       THEN \* swapcontext through a null t_scheduler_fiber / t_thread_fiber
            /\ fault' = "null_fiber"
            /\ m_state' = [m_state EXCEPT ![f] = "RUNNING"]
            /\ t_fiber' = [t_fiber EXCEPT ![CallerTid] = f]
            /\ trace' = [trace EXCEPT ![f] = Append(@, "RUNNING")]
            /\ UNCHANGED << m_ctx, exec, ip, counter >>
       ELSE /\ m_state' = [m_state EXCEPT ![f] = "RUNNING"]
            /\ t_fiber' = [t_fiber EXCEPT ![CallerTid] = f]
            /\ m_ctx' = [m_ctx EXCEPT ![x] = exec]
            /\ exec' = m_ctx[f]
            /\ trace' = [trace EXCEPT ![f] = Append(@, "RUNNING")]
            /\ ip' = [ip EXCEPT ![f] = @ + n]
            /\ counter' = counter + n
            /\ UNCHANGED fault
    /\ UNCHANGED << timerVars, ioVars, tickle_me >>
    /\ UNCHANGED << m_runInScheduler, t_scheduler_fiber, fresets >>
    /\ UNCHANGED << useCaller, nThreads, m_stopping, m_mutex, m_tasks,
                    m_activeThreadCount, m_idleThreadCount, mpc, stopper, wpc,
                    task, m_cb, nextTask, dispatched >>

\* the entry of f calls Fiber::GetThis()->yield(): fiber.cpp:158-181
Yield(f) ==
    /\ Running /\ exec = f /\ NextOp(f) = "yield"
    /\ LET x == ReturnFiber(f) IN
       /\ m_state' = [m_state EXCEPT ![f] = IF @ # "TERM" THEN "READY" ELSE @]
       /\ trace' = [trace EXCEPT ![f] = Append(@, "READY")]
       /\ t_fiber' = [t_fiber EXCEPT ![CallerTid] = x]
       /\ m_ctx' = [m_ctx EXCEPT ![f] = exec]
       /\ exec' = m_ctx[x]
    /\ ip' = [ip EXCEPT ![f] = @ + 1]
    /\ UNCHANGED << timerVars, ioVars, tickle_me >>
    /\ UNCHANGED << m_runInScheduler, t_scheduler_fiber, fresets >>
    /\ UNCHANGED << useCaller, nThreads, m_stopping, m_mutex, m_tasks,
                    m_activeThreadCount, m_idleThreadCount, mpc, stopper, wpc,
                    task, m_cb, counter, nextTask, dispatched, fault >>

\* the entry of f returns to Fiber::MainFunc, which clears it, sets TERM and
\* yields: fiber.cpp:188-202, 158-181
Return(f) ==
    /\ Running /\ exec = f /\ NextOp(f) = "return"
    /\ LET x == ReturnFiber(f) IN
       /\ m_cb' = ClearedCb(f)
       /\ m_state' = [m_state EXCEPT ![f] = "TERM"]
       /\ trace' = [trace EXCEPT ![f] = Append(@, "TERM")]
       /\ t_fiber' = [t_fiber EXCEPT ![CallerTid] = x]
       /\ m_ctx' = [m_ctx EXCEPT ![f] = exec]
       /\ exec' = m_ctx[x]
    /\ UNCHANGED << timerVars, ioVars, tickle_me >>
    /\ UNCHANGED << m_runInScheduler, t_scheduler_fiber, fresets >>
    /\ UNCHANGED << useCaller, nThreads, m_stopping, m_mutex, m_tasks,
                    m_activeThreadCount, m_idleThreadCount, mpc, stopper, wpc,
                    task, ip, counter, nextTask, dispatched, fault >>

\* f->reset(cb) called from the thread's code: fiber.cpp:109-125
Reset(f, cb) ==
    /\ Running /\ exec = UserCode /\ fresets < MaxFiberResets
    /\ fresets' = fresets + 1
    /\ IF m_state[f] # "TERM"
       THEN \* assert(m_stack != nullptr && m_state == TERM) fails
            /\ fault' = "assert_reset"
            /\ UNCHANGED << m_state, m_cb, m_ctx, ip, trace >>
       ELSE /\ m_state' = [m_state EXCEPT ![f] = "READY"]
            /\ m_cb' = [m_cb EXCEPT ![f] = cb]
            /\ m_ctx' = [m_ctx EXCEPT ![f] = f]
            /\ ip' = [ip EXCEPT ![f] = 0]
            /\ trace' = [trace EXCEPT ![f] = << "READY" >>]
            /\ UNCHANGED fault
    /\ UNCHANGED << timerVars, ioVars, tickle_me >>
    /\ UNCHANGED << m_runInScheduler, t_scheduler_fiber, exec >>
    /\ UNCHANGED << useCaller, nThreads, m_stopping, m_mutex, m_tasks,
                    m_activeThreadCount, m_idleThreadCount, mpc, stopper, wpc,
                    task, t_fiber, counter, nextTask, dispatched >>

MainStep ==
    \/ Start
    \/ ScheduleFiber
    \/ ScheduleCb
    \/ StopBegin
    \/ StopJoin

WorkerStep(w) ==
    \/ ScanNone(w)
    \/ ScanTake(w)
    \/ ExecFiberTask(w)
    \/ IdleTurn(w)
    \/ FiberSched(w)
    \/ FiberYield(w)
    \/ FiberReturn(w)
    \/ YieldSwap(w)

\* the Scheduler and the TimerManager after their constructors
Init ==
    /\ SchedInit /\ TimerManagerInit /\ IOManagerInit
    /\ FiberApiInit([f \in UserFibers |-> TRUE])

Next ==
    \/ MainStep
    \/ \E w \in AllWorkers : WorkerStep(w)

Spec == Init /\ [][Next]_vars

FairSpec ==
    /\ Spec
    /\ WF_vars(MainStep)
    /\ \A w \in AllWorkers : WF_vars(WorkerStep(w))

\* a TimerManager used by the threads TimerCallers, next to a Scheduler that
\* was constructed and not started
TimerInit ==
    /\ SchedInit
    /\ ~useCaller /\ nThreads = 1
    /\ \A f \in UserFibers : m_cb[f] = "yield"
    /\ TimerManagerInit
    /\ IOManagerInit
    /\ FiberApiInit([f \in UserFibers |-> TRUE])

TimerNext ==
    \/ ClockAdvance
    \/ \E c \in TimerCallers : CallerStep(c)

TimerSpec == TimerInit /\ [][TimerNext]_vars

\* a TimerManager whose timers are added and drained while the system clock
\* moves in both directions
ClockNext ==
    \/ ClockAdvance
    \/ ClockStepBack
    \/ \E c \in TimerCallers :
          \/ AddTimer(c)
          \/ FrontCall(c)
          \/ DrainBegin(c)
          \/ DrainIter(c)
          \/ DrainEnd(c)

ClockSpec == TimerInit /\ [][ClockNext]_vars

\* one IOManager: its constructor ends with start() (ioscheduler.cpp:80);
\* then threads register events and the registered events trigger, while
\* the workers stay in idle()
IoInit ==
    /\ Init
    /\ nThreads = 1
    /\ \A f \in UserFibers : m_cb[f] = "yield"

IoNext ==
    \/ Start
    \/ \E who \in IoCallers, fd \in Fds, event \in Events, cb \in IoCbs,
          os \in EpollResults : AddEvent(who, fd, event, cb, os)
    \/ \E who \in IoCallers, fd \in Fds : AddEventMiss(who, fd)
    \/ \E who \in IoCallers, event \in Events, cb \in IoCbs,
          os \in EpollResults : AddEventGrow(who, event, cb, os)
    \/ \E fd \in Fds, event \in Events : TriggerEvent(fd, event)

IoSpec == IoInit /\ [][IoNext]_vars

\* the user fibers driven from the code of the thread that constructed the
\* scheduler, each constructed with either value of run_in_scheduler
FiberInit ==
    /\ SchedInit
    /\ nThreads = 1
    /\ \A f \in UserFibers : m_cb[f] = "yield"
    /\ TimerManagerInit
    /\ IOManagerInit
    /\ \E ris \in [UserFibers -> BOOLEAN] : FiberApiInit(ris)

FiberNext ==
    \/ GetThisCall
    \/ \E f \in UserFibers :
          \/ Resume(f)
          \/ Yield(f)
          \/ Return(f)
    \/ \E f \in UserFibers, cb \in ResetEntries : Reset(f, cb)

FiberSpec == FiberInit /\ [][FiberNext]_vars

(***************************************************************************)
(* Properties of the Scheduler, checked under Spec (C4 under FairSpec).    *)
(***************************************************************************)
StopReturned == mpc = "done"

\* the tasks the user's thread has handed to scheduleLock so far
UserTasks == 1 .. (nextTask - 1)

\* C1: when stop() returns, every worker thread has left its loop (and so
\* was joined) and the task queue is empty, whatever use_caller and the
\* thread count are.
C1_StopLeavesQueueEmpty ==
    StopReturned =>
        /\ m_tasks = << >>
        /\ \A w \in Workers : wpc[w] = "exited"

\* C2: with use_caller = true and threads = 1 the resume of the scheduler
\* fiber in stop() runs the worker loop on the caller thread, so every task
\* queued before stop() has been taken and run when stop() returns.
C2_CallerRunsQueuedTasks ==
    (StopReturned /\ useCaller /\ nThreads = 1) =>
        \A t \in UserTasks : dispatched[t] = 1

\* C3: the thread-affinity assertion of stop() fails only for use_caller =
\* true with a calling thread other than the constructing one; with
\* use_caller = false, stop() on the constructing thread passes it.
C3_StopAssertOnlyForeignCaller ==
    fault = "assert_stop" => (useCaller /\ stopper # "ctor")

\* the scenario of C4: no caller, one worker, fibers A and B (entry:
\* increment, yield, increment) scheduled as fiber tasks and not yet taken
TwoFibersQueued ==
    /\ ~useCaller /\ nThreads = 1
    /\ m_cb[1] = "yield" /\ m_cb[2] = "yield"
    /\ m_tasks = << FiberTask(1, 1, AnyThread), FiberTask(2, 2, AnyThread) >>
    /\ counter = 0

TwoFibersDone ==
    /\ counter = 4
    /\ m_state[1] = "TERM" /\ m_state[2] = "TERM"
    /\ StopReturned

\* C4: one worker, no caller, fibers A and B that each increment, yield and
\* increment again: eventually the counter is 4, both fibers are TERM and
\* stop() has returned.  (A run in which stop() is called on a thread that
\* fails its assertion is left aside.)
C4_TwoFibersFinish ==
    [](TwoFibersQueued => <>(TwoFibersDone \/ fault = "assert_stop"))

\* the fibers that belong to thread th: its main fiber, its current fiber,
\* the fiber it executes, its idle fiber, the caller's scheduler fiber
FibersOf(th) ==
    {RootFiber(th)}
    \cup (IF t_fiber[th] # NullFiber THEN {t_fiber[th]} ELSE {})
    \cup (IF th \in AllWorkers
          THEN {IdleFiber(th)}
               \cup (IF wpc[th] \in {"fiber", "yielding"}
                     THEN {ExecFiber(th)} ELSE {})
          ELSE {SchedFiber})

\* C5: on every thread at most one of its fibers is RUNNING: while a fiber
\* it resumed is RUNNING, the resuming fiber is not.
C5_OneRunningPerThread ==
    \A th \in Threads :
        Cardinality({f \in FibersOf(th) : m_state[f] = "RUNNING"}) <= 1

\* C6: no worker resumes a fiber that is RUNNING or has not finished its
\* yield: the precondition of resume(), state = READY on a fiber no thread
\* executes, is never violated.
C6_ResumeOnlyYielded ==
    fault \notin {"assert_resume", "resume_mid_yield"}

\* worker w leaves the critical section of run() that takes a task
Dequeues(w) == wpc[w] = "scan" /\ wpc'[w] # "scan"

EligibleAt(w) ==
    {i \in 1 .. Len(m_tasks) : m_tasks[i].thread \in {AnyThread, w}}

\* C7: a dequeue by worker w removes the earliest task whose target thread
\* is -1 or w; every other task stays, in its order.
C7_DequeueTakesEarliestEligible ==
    [][\A w \in AllWorkers :
         Dequeues(w) =>
           IF EligibleAt(w) = {}
           THEN m_tasks' = m_tasks /\ task'[w] = NoTask
           ELSE LET k == CHOOSE i \in EligibleAt(w) :
                            \A j \in EligibleAt(w) : i <= j IN
                /\ task'[w] = m_tasks[k]
                /\ Len(m_tasks') = Len(m_tasks) - 1
                /\ \A i \in 1 .. Len(m_tasks') :
                     m_tasks'[i] = IF i < k THEN m_tasks[i] ELSE m_tasks[i + 1]
      ]_vars

\* worker 1 holds the first task while the second one waits in the queue
C7_Witness ==
    \E w \in AllWorkers :
        /\ task[w].id = 1
        /\ m_tasks # << >> /\ m_tasks[1].id = 2

\* C8: a task with target thread t # -1 is only ever held and run by worker
\* t, and a worker that scans past it takes the unpinned task behind it.
C8_PinnedTaskOnlyOnItsThread ==
    /\ [](\A w \in AllWorkers :
            task[w] # NoTask => task[w].thread \in {AnyThread, w})
    /\ [][\A w \in AllWorkers :
            (Dequeues(w) /\ \E i, j \in 1 .. Len(m_tasks) :
                                /\ i < j
                                /\ m_tasks[i].thread \notin {AnyThread, w}
                                /\ m_tasks[j].thread = AnyThread)
            => /\ task'[w] # NoTask
               /\ task'[w].thread \in {AnyThread, w}
               /\ \E i \in 1 .. Len(m_tasks') :
                     m_tasks'[i].thread \notin {AnyThread, w}
       ]_vars

\* worker 2 runs the unpinned second task while the first task, pinned to
\* worker 1, still waits
C8_Witness ==
    /\ task[2].id = 2 /\ task[2].thread = AnyThread /\ wpc[2] = "fiber"
    /\ m_tasks # << >> /\ m_tasks[1].id = 1 /\ m_tasks[1].thread = 1

InQueue(t) == Cardinality({i \in 1 .. Len(m_tasks) : m_tasks[i].id = t})
Holders(t) == {w \in AllWorkers : task[w].id = t}

\* C9: a task put into the queue is consumed once and by one worker: at
\* every moment it is either in the queue once or was dispatched once,
\* never both and never twice, it is never lost, and no two workers hold it.
C9_TaskDispatchedOnce ==
    \A t \in TaskIds :
        /\ InQueue(t) + dispatched[t] <= 1
        /\ t \in UserTasks => InQueue(t) + dispatched[t] = 1
        /\ Cardinality(Holders(t)) <= dispatched[t]

\* two workers hold a task each at the same time
C9_Witness ==
    \E v, w \in AllWorkers :
        /\ v # w
        /\ task[v].id # 0 /\ task[w].id # 0
        /\ dispatched[task[v].id] = 1 /\ dispatched[task[w].id] = 1

(***************************************************************************)
(* Properties of the TimerManager, checked under TimerSpec.                *)
(***************************************************************************)
\* C10: under any interleaving of cancel, refresh, reset, addTimer and
\* listExpiredCb on one TimerManager, every timer in the set has a non-null
\* callback, and a timer on which cancel() has returned true is not in the
\* set, also after a reset() that ran concurrently has completed.
C10_SetHoldsLiveTimersOnly ==
    /\ \A t \in m_timers : timer_cb[t] # "null"
    /\ \A t \in cancelOk : t \notin m_timers

\* the timers some caller is resetting: erased by reset(), not yet re-added
BeingReset == {call[c].timer : c \in TimerCallers} \ {NoTimer}

\* a timer that was added, is not cancelled and has not fired as a one-shot
Live(t) == t \in created /\ timer_cb[t] # "null"

\* C11: timers with equal deadlines are distinct entries of the set: two
\* live timers whose m_next are equal (and that no reset() holds outside
\* the set) are both in m_timers, so both fire and cancel() of one leaves
\* the other.
C11_EqualDeadlinesBothInSet ==
    \A t, u \in Timers :
        (/\ t # u /\ Live(t) /\ Live(u)
         /\ m_next[t] = m_next[u]
         /\ t \notin BeingReset /\ u \notin BeingReset)
        => (t \in m_timers /\ u \in m_timers)

\* C12: one call of listExpiredCb pushes the callback of a due timer exactly
\* once (and so ends after at most one turn of its loop per timer in the
\* set), whatever the periods are, 0 included.
C12_DrainFiresEachTimerOnce ==
    \A i, j \in 1 .. Len(cbs) : i # j => cbs[i].timer # cbs[j].timer

\* C13: a listExpiredCb that sees the clock more than the rollover window
\* behind the last reading fires each timer that was in the set once and
\* returns: no timer (here: with a period above 0, so that it would not be
\* due again at once) has its callback pushed twice in that call.
C13_RolloverFiresEachTimerOnce ==
    rollover =>
        \A i, j \in 1 .. Len(cbs) :
            (i # j /\ m_ms[cbs[i].timer] > 0) => cbs[i].timer # cbs[j].timer

\* C14: on a timer that was cancelled, or that fired as a one-shot, cancel(),
\* refresh() and reset(ms, from_now) return false for every ms and from_now
\* (they leave the set as it is: each returns before it touches m_timers).
C14_DeadTimerCallsReturnFalse ==
    \A t \in created :
        timer_cb[t] = "null" =>
            /\ ~CancelReturns(t)
            /\ ~RefreshReturns(t)
            /\ \A ms \in Periods, from_now \in BOOLEAN :
                   ~ResetReturns(t, ms, from_now)

\* C15: on a live timer (added, not cancelled, not fired, no other reset()
\* of it in progress) reset(new_period, from_now) returns true for every
\* new_period and from_now, and then sets the period and the deadline.
C15_ResetOfLiveTimerReturnsTrue ==
    \A t \in created :
        (Live(t) /\ t \notin BeingReset) =>
            \A ms \in Periods, from_now \in BOOLEAN :
                ResetReturns(t, ms, from_now)

\* a step that is a successful refresh() of timer t: the only step that
\* writes m_next[t] and is neither a part of reset() (tpc changes), nor a
\* turn of listExpiredCb (cbs changes), nor the construction of t
RefreshStep(t) ==
    /\ m_next'[t] # m_next[t]
    /\ tpc' = tpc /\ cbs' = cbs /\ created' = created

\* C16: a successful refresh() of a live timer sets its deadline to now +
\* m_ms, which is not below the deadline it had, and the timer stays in the
\* set.
C16_RefreshMovesForwardAndKeeps ==
    [][\A t \in created :
         RefreshStep(t) =>
            /\ m_next'[t] = now + m_ms[t]
            /\ m_next'[t] >= m_next[t]
            /\ t \in m_timers'
      ]_vars

\* C17: between two consecutive calls of getNextTimer,
\* onTimerInsertedAtFront is invoked at most once, however many timers the
\* threads insert at the front.
C17_OneFrontCallPerGetNextTimer ==
    frontCalls <= 1

\* C18: an addEvent(fd, e) that fails, because e is registered on fd already
\* or because epoll_ctl fails, returns a negative value and leaves the events
\* mask of the FdContext of fd, its read and write EventContexts and
\* m_pendingEventCount as they were before the call.
C18_FailedAddEventChangesNothing ==
    [][(ret'.op = "addEvent" /\ (ret'.dup \/ ret'.os # 0))
         => /\ ret'.rt < 0
            /\ events'[ret'.fd] = events[ret'.fd]
            /\ ctx'[ret'.fd] = ctx[ret'.fd]
            /\ m_pendingEventCount' = m_pendingEventCount]_vars

\* epoll_ctl has failed for an event of an fd that has the other event
\* registered, and the call has returned -1
C18_Witness ==
    /\ ret.op = "addEvent" /\ ret.os # 0 /\ ret.rt < 0
    /\ events[ret.fd] # {}
    /\ m_pendingEventCount > 0

\* the (fd, event) pairs whose EventContext holds a fiber or a callback
Holding ==
    {p \in Fds \X Events :
        \/ getEventContext(p[1], p[2]).fiber # NullFiber
        \/ getEventContext(p[1], p[2]).cb # "null"}

\* C19: after any sequence of addEvent and triggerEvent calls,
\* m_pendingEventCount is the number of (fd, event) pairs whose EventContext
\* holds a fiber or a callback.
C19_PendingCountsHeldContexts == m_pendingEventCount = Cardinality(Holding)

\* the EventContext c has a scheduler and exactly one of fiber and callback
Populated(c) ==
    /\ c.scheduler # "null"
    /\ (c.fiber # NullFiber) # (c.cb # "null")

\* C20: for every fd and every event e of READ and WRITE, the bit e is set
\* in the events mask of the FdContext exactly when the EventContext of e has
\* a scheduler and exactly one of fiber and callback.
C20_BitSetIffContextPopulated ==
    \A fd \in Fds, e \in Events :
        Registered(fd, e) <=> Populated(getEventContext(fd, e))

\* C21: under any interleaving of concurrent addEvent calls the length of
\* m_fdContexts never decreases, and an FdContext that holds registered
\* events stays in the table with them.
C21_TableNeverShrinks ==
    [][/\ m_fdContexts' >= m_fdContexts
       /\ \A fd \in Fds :
            (ret'.op = "addEvent" /\ fd # ret'.fd) => events'[fd] = events[fd]]_vars

\* s is a beginning of the sequence t
IsPrefix(s, t) == Len(s) <= Len(t) /\ s = SubSeq(t, 1, Len(s))

\* the states of a fiber whose entry yields once, and of one that does not
OneYieldStates == << "READY", "RUNNING", "READY", "RUNNING", "TERM" >>
NoYieldStates == << "READY", "RUNNING", "TERM" >>

\* C22: a user fiber made READY and resumed from the code of its thread goes
\* through READY, RUNNING, READY, RUNNING, TERM when its entry yields once,
\* and has run its entry to the end then; after each yield and after the end
\* the thread is back in the code that called resume(); a fiber that is TERM
\* runs again only after reset() made it READY.
C22_ResumeYieldResumeCompletes ==
    /\ [](\A f \in UserFibers :
            /\ IsPrefix(trace[f], OneYieldStates)
                   \/ IsPrefix(trace[f], NoYieldStates)
            /\ trace[f][Len(trace[f])] = m_state[f]
            /\ trace[f] = OneYieldStates => ip[f] = Len(Body("yield"))
            /\ m_state[f] \in {"READY", "TERM"} => exec # f
            /\ exec = f => m_state[f] = "RUNNING")
    /\ [](exec \in {UserCode} \cup UserFibers)
    /\ [][\A f \in UserFibers :
            /\ (m_state[f] = "RUNNING" /\ m_state'[f] # "RUNNING")
                  => exec' = UserCode
            /\ (m_state[f] = "TERM" /\ m_state'[f] # "TERM")
                  => (m_state'[f] = "READY" /\ fresets' = fresets + 1
                      /\ exec' = UserCode)
       ]_vars

\* a fiber whose entry yields once is TERM after two resumes, the thread is
\* back in its own code, and a third resume has failed the assertion
C22_Witness ==
    \E f \in UserFibers :
        /\ trace[f] = OneYieldStates
        /\ ip[f] = Len(Body("yield"))
        /\ exec = UserCode
        /\ fault = "assert_resume"

C24_MutexFreeWhileTaskRuns ==
    \A w \in AllWorkers : wpc[w] \in {"fiber", "yielding"} => m_mutex # w

\* the scan of run() by worker w, from the lock at scheduler.cpp:98 to the
\* end of its block at line 120
ScanStep(w) ==
    wpc[w] = "scan" /\ wpc'[w] \in {"exec", "fiber", "idle", "exited"}

\* the scan by w leaves a task in the queue behind the one it takes
RemainsBehind(w) ==
    LET k == ScanFrom(m_tasks, 1, w) IN k # 0 /\ k < Len(m_tasks)

\* C25: after each dequeue scan tickle() is called (tickle_me is true at
\* scheduler.cpp:122) if and only if the scan skipped a task pinned to
\* another thread or a task remains in the queue behind the selected one.
C25_TickleIffSkippedOrRemaining ==
    [][\A w \in AllWorkers :
         ScanStep(w) =>
           (tickle_me'[w] <=>
              (Skipped(m_tasks, ScanFrom(m_tasks, 1, w)) \/ RemainsBehind(w)))]_vars

\* C26: listExpiredCb never appends a null callback to the vector it fills,
\* also when a cancel() of a timer runs between the steps of a reset() or
\* of a drain of the same timer.
C26_NoNullCallbackDrained ==
    \A i \in 1 .. Len(cbs) : cbs[i].cb # "null"

\* worker w executes a task whose next operation is the call of
\* scheduleLock on its own scheduler
CallsSchedule(w) == wpc[w] = "fiber" /\ NextOp(ExecFiber(w)) = "sched"

\* C27: a task that calls schedule() on its own scheduler gets the
\* task-queue mutex and returns, whether it was enqueued as a fiber or as a
\* callable: the thread that makes the call never holds the mutex already,
\* which would leave it waiting for itself for ever.
C27_ScheduleFromTaskReturns ==
    \A w \in AllWorkers : CallsSchedule(w) => m_mutex # w

====
